---- MODULE Spec2Model ----
(***************************************************************************)
(* A model of analysis.py, the statistical analysis script of the FPS      *)
(* reaction-time experiment: parse_csv, load_all_data, classify_phases,    *)
(* remove_outliers, analyze_subject, group_analysis and main.              *)
(*                                                                         *)
(* Text is modelled as sequences of lexical tokens: a line of a data file  *)
(* and a file name are tuples of strings such as "--- Summary ---", ",",   *)
(* " ", "250".  strip, startswith, split, int() and float() are computed   *)
(* on those tuples.  Reaction times are whole milliseconds; quartiles are  *)
(* kept exactly as multiples of 1/4, and p-values as multiples of 1/1000.  *)
(***************************************************************************)
EXTENDS Integers, Sequences, FiniteSets, TLC

VARIABLES
    \* ---- parse_csv, one line at a time (src/analysis.py 35-68)
    f_lines,        \* the lines of the file being read
    lineno,         \* index of the next line the for loop reads
    in_settings,    \* local in_settings
    in_trials,      \* local in_trials
    settings,       \* local settings (dict: key -> value)
    trials,         \* local trials (list of rows)
    ppc,            \* "idle" | "loop" | "break" | "returned" | "raised"
    \* ---- remove_outliers applied repeatedly (src/analysis.py 133-154)
    series,         \* the series handed to the first pass
    cleaned,        \* the output of the latest pass
    passes,         \* number of passes applied so far
    \* ---- main (src/analysis.py 440-464)
    dir,            \* the files of DATA_DIR: a set of file names
    content,        \* the text of each file of dir
    subjects,       \* dict subject name -> list of file records
    order,          \* insertion order of the keys of subjects
    idx,            \* position of the for loop of main in order
    phases,         \* phases of the subject being analyzed
    results_list,   \* results_list of main
    tests,          \* the pooled tests group_analysis has run
    h_p,            \* the omnibus p-value of group_analysis
    outputs,        \* the output files written so far
    scipy,          \* what the statistics library answers in this run
    err,            \* the exception that ended the run, or "none"
    pc              \* position of main

parseVars   == <<f_lines, lineno, in_settings, in_trials, settings, trials, ppc>>
outlierVars == <<series, cleaned, passes>>
mainVars    == <<dir, content, subjects, order, idx, phases, results_list,
                 tests, h_p, outputs, scipy, err, pc>>
vars        == <<parseVars, outlierVars, mainVars>>

(***************************************************************************)
(* Bounds of the model.                                                    *)
(***************************************************************************)
MaxLines  == 4      \* lines of a file read by the line-by-line parser
MaxSeries == 5      \* values of a series handed to remove_outliers
MaxPasses == 2      \* passes of remove_outliers over one series
MaxFiles  == 6      \* files of the data directory
MaxExtra  == 1      \* files of the directory that are not well-named files of A

(***************************************************************************)
(* Text helpers: str.strip, str.startswith, "," in s, str.split(",").      *)
(***************************************************************************)
RECURSIVE LStrip(_)
LStrip(s) == IF s # <<>> /\ s[1] = " " THEN LStrip(Tail(s)) ELSE s

RECURSIVE RStrip(_)
RStrip(s) == IF s # <<>> /\ s[Len(s)] = " "
             THEN RStrip(SubSeq(s, 1, Len(s) - 1)) ELSE s

Strip(s) == RStrip(LStrip(s))

StartsWith(s, p) == Len(s) >= Len(p) /\ SubSeq(s, 1, Len(p)) = p

HasComma(s) == \E i \in 1..Len(s) : s[i] = ","

FirstComma(s) == CHOOSE i \in 1..Len(s) :
                    s[i] = "," /\ \A j \in 1..(i - 1) : s[j] # ","

RECURSIVE Split(_)
Split(s) == IF ~HasComma(s) THEN <<s>>
            ELSE <<SubSeq(s, 1, FirstComma(s) - 1)>>
                 \o Split(SubSeq(s, FirstComma(s) + 1, Len(s)))

\* int(x): surrounding blanks are accepted, anything but an integer literal
\* raises ValueError.
IntLiterals == {"1", "2", "3"}
IntValue == [t \in IntLiterals |->
               CASE t = "1" -> 1 [] t = "2" -> 2 [] OTHER -> 3]
IntParses(field) == Len(Strip(field)) = 1 /\ Strip(field)[1] \in IntLiterals
ParseInt(field)  == IntValue[Strip(field)[1]]

\* float(x): the reaction time literals of the model, whole milliseconds.
FloatLiterals == {"90", "100", "240", "250", "260", "1000", "1200"}
FloatValue == [t \in FloatLiterals |->
                 CASE t = "90" -> 90 [] t = "100" -> 100 [] t = "240" -> 240
                   [] t = "250" -> 250 [] t = "260" -> 260
                   [] t = "1000" -> 1000 [] OTHER -> 1200]
FloatParses(field) == Len(Strip(field)) = 1 /\ Strip(field)[1] \in FloatLiterals
ParseFloat(field)  == FloatValue[Strip(field)[1]]

(***************************************************************************)
(* parse_csv.                                                              *)
(***************************************************************************)
SettingsMarker == <<"--- Settings ---">>
SummaryMarker  == <<"--- Summary ---">>
TrialsPrefix   == <<"Trial", ",", "Direction", ",">>

IsSettingsMarker(line) == StartsWith(line, SettingsMarker)

NeverSummaryMarker(line) == FALSE

IsSummaryMarker(line) == StartsWith(line, SummaryMarker)

IsTrialsHeader(line) == StartsWith(line, TrialsPrefix)

SettingsPut(d, key, val) ==
    [k \in (DOMAIN d) \cup {key} |-> IF k = key THEN val ELSE d[k]]

\* The key and value of a settings line: line.split(',', 1), both stripped.
SettingKey(line) == Strip(SubSeq(line, 1, FirstComma(line) - 1))
SettingVal(line) == Strip(SubSeq(line, FirstComma(line) + 1, Len(line)))

\* The row a trial line appends; int() and float() may raise.
RowParses(parts) == IntParses(parts[1]) /\ FloatParses(parts[3])
MakeRow(parts) == [Trial |-> ParseInt(parts[1]),
                   Direction |-> parts[2],
                   ReactionTime_ms |-> ParseFloat(parts[3])]

\* in_settings = True; in_trials = False; continue
EnterSettings(st) ==
    [st EXCEPT !.in_settings = TRUE, !.in_trials = FALSE, !.ctl = "next"]

\* A trials header that leaves in_settings as it is.
EnterTrialsOnly(st) == [st EXCEPT !.in_trials = TRUE, !.ctl = "next"]

\* in_trials = True; in_settings = False; continue
EnterTrials(st) ==
    [st EXCEPT !.in_trials = TRUE, !.in_settings = FALSE, !.ctl = "next"]

\* One iteration of the for loop.  st holds the four locals; the result adds
\* ctl: "next" (go on with the following line), "break" or "raise".
ParseLine(st, raw) ==
    LET line == Strip(raw) IN
    IF IsSettingsMarker(line)
    THEN EnterSettings(st)
    ELSE IF IsSummaryMarker(line)
    THEN [st EXCEPT !.ctl = "break"]
    ELSE IF IsTrialsHeader(line)
    THEN EnterTrials(st)
    ELSE
      LET s1 == IF st.in_settings /\ HasComma(line)
                THEN SettingsPut(st.settings, SettingKey(line), SettingVal(line))
                ELSE st.settings
          parts == Split(line)
      IN  IF st.in_trials /\ line # <<>> /\ Len(parts) >= 3
          THEN IF RowParses(parts)
               THEN [st EXCEPT !.settings = s1,
                               !.trials = Append(st.trials, MakeRow(parts)),
                               !.ctl = "next"]
               ELSE [st EXCEPT !.settings = s1, !.ctl = "raise"]
          ELSE [st EXCEPT !.settings = s1, !.ctl = "next"]

ParseStart == [in_settings |-> FALSE, in_trials |-> FALSE,
               settings |-> <<>>, trials |-> <<>>, ctl |-> "next"]

\* The whole of parse_csv on the lines of a file: the loop from line i on.
RECURSIVE ParseFrom(_, _, _)
ParseFrom(st, lines, i) ==
    IF i > Len(lines) \/ st.ctl # "next" THEN st
    ELSE ParseFrom(ParseLine(st, lines[i]), lines, i + 1)

\* ctl "raise": parse_csv raised; otherwise it returned (settings, df).
ParseCsv(lines) == ParseFrom(ParseStart, lines, 1)

\* The lines the line-by-line parser is run on.
LineSet ==
    { <<"--- Settings ---">>,
      <<"--- Summary ---">>,
      <<"--- Summary ---", " ", "x">>,
      <<"Trial", ",", "Direction", ",", "ReactionTime_ms">>,
      <<"Trial", ",", "Direction", ",", "250">>,
      <<"Offset", ",", " ", "0">>,
      <<"1", ",", "Left", ",", "250">>,
      <<"x", ",", "Left", ",", "250">>,
      <<"2", ",", "Left", ",", "x">>,
      <<"1", ",", "Left">> }

Files == UNION { [1..n -> LineSet] : n \in 0..MaxLines }

ParseIdle == /\ f_lines = <<>> /\ lineno = 0
             /\ in_settings = FALSE /\ in_trials = FALSE
             /\ settings = <<>> /\ trials = <<>> /\ ppc = "idle"

\* with open(filepath) ...: the locals are initialised, the loop starts.
ParseInit == /\ f_lines \in Files /\ lineno = 1
             /\ in_settings = FALSE /\ in_trials = FALSE
             /\ settings = <<>> /\ trials = <<>> /\ ppc = "loop"

\* for line in f: one line is read and handled.
ReadLine ==
    /\ ppc = "loop" /\ lineno <= Len(f_lines)
    /\ LET r == ParseLine([in_settings |-> in_settings, in_trials |-> in_trials,
                           settings |-> settings, trials |-> trials,
                           ctl |-> "next"], f_lines[lineno])
       IN  /\ in_settings' = r.in_settings
           /\ in_trials' = r.in_trials
           /\ settings' = r.settings
           /\ trials' = r.trials
           /\ ppc' = CASE r.ctl = "break" -> "break"
                       [] r.ctl = "raise" -> "raised"
                       [] OTHER -> "loop"
           /\ lineno' = IF r.ctl = "next" THEN lineno + 1 ELSE lineno
    /\ UNCHANGED <<f_lines, outlierVars, mainVars>>

\* The loop is over (end of file or break): df is built and returned.
ParseReturn ==
    /\ \/ ppc = "loop" /\ lineno > Len(f_lines)
       \/ ppc = "break"
    /\ ppc' = "returned"
    /\ UNCHANGED <<f_lines, lineno, in_settings, in_trials, settings, trials,
                   outlierVars, mainVars>>

(***************************************************************************)
(* remove_outliers.  Quartiles are pandas' default (linear interpolation); *)
(* Quantile4 is four times the quantile, so that it stays an integer, and  *)
(* the fences are compared after scaling by 8.                             *)
(***************************************************************************)
PhysioMin == 100
PhysioMax == 1000

MaskPhysioNoLower(v) == v <= PhysioMax

\* mask_physio = (series >= 100) & (series <= 1000)
MaskPhysio(v) == v >= PhysioMin /\ v <= PhysioMax

Sorted(s) == SortSeq(s, <)

\* 4 * s.quantile(k/4) of a non-empty series: position (n-1)*k/4 of the
\* sorted values, interpolated linearly between its two neighbours.
Quantile4(s, k) ==
    LET srt == Sorted(s)
        lo  == ((Len(s) - 1) * k) \div 4
        r   == ((Len(s) - 1) * k) % 4
    IN  IF r = 0 THEN 4 * srt[lo + 1]
        ELSE 4 * srt[lo + 1] + r * (srt[lo + 2] - srt[lo + 1])

\* 8 * lower and 8 * upper, with lower = q1 - 1.5*iqr, upper = q3 + 1.5*iqr
Lower8(s) == 2 * Quantile4(s, 1) - 3 * (Quantile4(s, 3) - Quantile4(s, 1))
Upper8(s) == 2 * Quantile4(s, 3) + 3 * (Quantile4(s, 3) - Quantile4(s, 1))

MaskIqrLowerOnly(v, lower8, upper8) == 8 * v >= lower8

\* mask_iqr = (cleaned >= lower) & (cleaned <= upper)
MaskIqr(v, lower8, upper8) == 8 * v >= lower8 /\ 8 * v <= upper8

RECURSIVE Filter(_, _, _, _)
Filter(s, i, lower8, upper8) ==
    IF i > Len(s) THEN <<>>
    ELSE (IF MaskIqr(s[i], lower8, upper8) THEN <<s[i]>> ELSE <<>>)
         \o Filter(s, i + 1, lower8, upper8)

RECURSIVE PhysioFilter(_, _)
PhysioFilter(s, i) ==
    IF i > Len(s) THEN <<>>
    ELSE (IF MaskPhysio(s[i]) THEN <<s[i]>> ELSE <<>>) \o PhysioFilter(s, i + 1)

\* The quantiles of an empty series are NaN and every comparison with NaN
\* is False: the result is empty.
remove_outliers(s) ==
    LET c == PhysioFilter(s, 1)
    IN  IF c = <<>> THEN <<>> ELSE Filter(c, 1, Lower8(c), Upper8(c))

\* The series remove_outliers is run on.
SeriesValues == {90, 100, 120, 130, 900, 1000, 1200}
FixedSeries  == <<120, 130, 125, 128, 122, 900, 121>>
SeriesSet == UNION { [1..n -> SeriesValues] : n \in 0..MaxSeries }
             \cup {FixedSeries}

OutlierIdle == series = <<>> /\ cleaned = <<>> /\ passes = 0

OutlierInit == series \in SeriesSet /\ cleaned = <<>> /\ passes = 0

\* remove_outliers applied to the series, then to its own output.
RemoveOutliersPass ==
    /\ passes < MaxPasses
    /\ cleaned' = remove_outliers(IF passes = 0 THEN series ELSE cleaned)
    /\ passes' = passes + 1
    /\ UNCHANGED <<series, parseVars, mainVars>>

(***************************************************************************)
(* File names.  A name is a tuple of tokens; "_" is a token of its own and *)
(* a timestamp (8 digits, "_", 6 digits) is one token.  TokOrder lists the *)
(* tokens in the order of their text, which is the order sorted() uses.    *)
(***************************************************************************)
TsTokens == <<"20250101_100000", "20250101_110000", "20250101_120000",
              "20250101_130000", "20250101_140000", "20250101_150000">>

TokOrder == <<".bak", ".csv">> \o TsTokens
            \o <<"A", "B", "Data", "EMS", "OFF", "ON", "TEST", "_", "x">>

TokRank(t) == CHOOSE i \in 1..Len(TokOrder) : TokOrder[i] = t

IsTimestamp(t) == \E i \in 1..Len(TsTokens) : TsTokens[i] = t

\* \w: letters, digits and "_".
IsWord(t) == t \notin {".bak", ".csv"}

AllWord(f, i, j) == \A k \in i..j : IsWord(f[k])

\* f < g as strings.
RECURSIVE NameLess(_, _)
NameLess(f, g) ==
    IF f = <<>> THEN g # <<>>
    ELSE IF g = <<>> THEN FALSE
    ELSE IF TokRank(f[1]) < TokRank(g[1]) THEN TRUE
    ELSE IF TokRank(f[1]) > TokRank(g[1]) THEN FALSE
    ELSE NameLess(Tail(f), Tail(g))

\* files = sorted(os.listdir(DATA_DIR))
SortedNames(listing) == SortSeq(listing, NameLess)

\* re.match(r'Data_(\w+)_(EMS_\w+)_(\d{8}_\d{6})\.csv', f): the match starts
\* at the start of the name and need not end at its end.  The name group
\* ends at token a, the status group at token b.
StatusEnds(f, a) ==
    { b \in (a + 4)..(Len(f) - 3) :
        /\ AllWord(f, a + 4, b)
        /\ f[b + 1] = "_" /\ IsTimestamp(f[b + 2]) /\ f[b + 3] = ".csv" }

NameEnds(f) ==
    { a \in 3..(Len(f) - 7) :
        /\ f[1] = "Data" /\ f[2] = "_"
        /\ AllWord(f, 3, a)
        /\ f[a + 1] = "_" /\ f[a + 2] = "EMS" /\ f[a + 3] = "_"
        /\ StatusEnds(f, a) # {} }

SetMax(S) == CHOOSE x \in S : \A y \in S : y <= x

EndsWithCsv(f) == f # <<>> /\ f[Len(f)] = ".csv"

NameMatches(f) == NameEnds(f) # {}

\* match.groups(): both \w+ are greedy.
MatchGroups(f) ==
    LET a == SetMax(NameEnds(f))
        b == SetMax(StatusEnds(f, a))
    IN  [name |-> SubSeq(f, 3, a),
         ems_status |-> SubSeq(f, a + 2, b),
         timestamp |-> f[b + 2]]

EMS_ON  == <<"EMS", "_", "ON">>
EMS_OFF == <<"EMS", "_", "OFF">>

TsGeq(x, y) == TokRank(x.timestamp) >= TokRank(y.timestamp)

\* The order of the sort key x['timestamp'] (strings of one width).
TsLeq(x, y) == TokRank(x.timestamp) <= TokRank(y.timestamp)

\* list.sort(key=...): stable, ascending.
RECURSIVE InsertByTs(_, _)
InsertByTs(sorted, x) ==
    IF sorted = <<>> THEN <<x>>
    ELSE IF TsLeq(sorted[Len(sorted)], x) THEN Append(sorted, x)
    ELSE Append(InsertByTs(SubSeq(sorted, 1, Len(sorted) - 1), x),
                sorted[Len(sorted)])

RECURSIVE SortByTs(_)
SortByTs(list) ==
    IF list = <<>> THEN <<>>
    ELSE InsertByTs(SortByTs(SubSeq(list, 1, Len(list) - 1)), list[Len(list)])

(***************************************************************************)
(* load_all_data.  The loop over the sorted names, from name i on; ld      *)
(* holds subjects, the insertion order of its keys and whether parse_csv   *)
(* raised.                                                                 *)
(***************************************************************************)
ReactionTimes(rows) == [i \in 1..Len(rows) |-> rows[i].ReactionTime_ms]

\* The body of the loop for a matching name, with g = match.groups() and
\* r = parse_csv(...).
LoadMatched(ld, f, g, r) ==
    LET new == g.name \notin DOMAIN ld.subjects
        sub == IF new
               THEN [n \in (DOMAIN ld.subjects) \cup {g.name} |->
                        IF n = g.name THEN <<>> ELSE ld.subjects[n]]
               ELSE ld.subjects
        ord == IF new THEN Append(ld.order, g.name) ELSE ld.order
    IN  IF r.ctl = "raise"
        THEN [ld EXCEPT !.subjects = sub, !.order = ord, !.raised = TRUE]
        ELSE [ld EXCEPT
                !.subjects = [sub EXCEPT ![g.name] =
                    Append(@, [filename |-> f,
                               ems_status |-> g.ems_status,
                               timestamp |-> g.timestamp,
                               settings |-> r.settings,
                               data |-> r.trials])],
                !.order = ord]

LoadFile(ld, f, text) ==
    IF ~EndsWithCsv(f) \/ ~NameMatches(f) THEN ld
    ELSE CHOOSE out \in { LoadMatched(ld, f, g, r) :
                            g \in {MatchGroups(f)}, r \in {ParseCsv(text)} } : TRUE

RECURSIVE LoadFrom(_, _, _, _)
LoadFrom(ld, files, texts, i) ==
    IF i > Len(files) \/ ld.raised THEN ld
    ELSE LoadFrom(LoadFile(ld, files[i], texts[files[i]]), files, texts, i + 1)

\* for name in subjects: subjects[name].sort(key=lambda x: x['timestamp'])
SortSubjects(ld) ==
    [ld EXCEPT !.subjects = [n \in DOMAIN ld.subjects |-> SortByTs(ld.subjects[n])]]

load_all_data(listing, texts) ==
    SortSubjects(LoadFrom([subjects |-> <<>>, order |-> <<>>, raised |-> FALSE],
                          SortedNames(listing), texts, 1))

(***************************************************************************)
(* classify_phases.                                                        *)
(***************************************************************************)
RECURSIVE WithStatus(_, _)
WithStatus(files, status) ==
    IF files = <<>> THEN <<>>
    ELSE (IF files[1].ems_status = status THEN <<files[1]>> ELSE <<>>)
         \o WithStatus(Tail(files), status)

PhaseNames == {"ems_response", "train_phase1", "train_phase2",
               "baseline", "measure_phase1", "measure_phase2"}

classify_phases(subject_files) ==
    LET off_files == WithStatus(subject_files, EMS_OFF)
        on_files  == WithStatus(subject_files, EMS_ON)
        present ==
            {k \in {"ems_response"} : Len(on_files) >= 1}
            \cup {k \in {"train_phase1"} : Len(on_files) >= 2}
            \cup {k \in {"train_phase2"} : Len(on_files) >= 3}
            \cup {k \in {"baseline"} : Len(off_files) >= 1}
            \cup {k \in {"measure_phase1"} : Len(off_files) >= 2}
            \cup {k \in {"measure_phase2"} : Len(off_files) >= 3}
    IN  [k \in present |->
            CASE k = "ems_response"   -> on_files[1]
              [] k = "train_phase1"   -> on_files[2]
              [] k = "train_phase2"   -> on_files[3]
              [] k = "baseline"       -> off_files[1]
              [] k = "measure_phase1" -> off_files[2]
              [] OTHER                -> off_files[3]]

(***************************************************************************)
(* Statistics.  NaN is a value of its own.  A mean is the fraction         *)
(* num/den, a variance (std()**2, ddof = 1) likewise; the size of an       *)
(* effect size needs a square root and is not kept, only whether it is     *)
(* NaN, infinite or finite.  p-values are thousandths.                     *)
(***************************************************************************)
NaN == 0 - 1

RECURSIVE Sum(_)
Sum(s) == IF s = <<>> THEN 0 ELSE s[1] + Sum(Tail(s))

RECURSIVE SumSq(_)
SumSq(s) == IF s = <<>> THEN 0 ELSE s[1] * s[1] + SumSq(Tail(s))

Mean(s) == [nan |-> s = <<>>, num |-> Sum(s), den |-> Len(s)]

Variance(s) == [nan |-> Len(s) < 2,
                num |-> Len(s) * SumSq(s) - Sum(s) * Sum(s),
                den |-> Len(s) * (Len(s) - 1)]

\* 4 * median, NaN for an empty series
Median4(s) == IF s = <<>> THEN NaN ELSE Quantile4(s, 2)

\* x.mean() - y.mean()
MeanDiff(x, y) == [nan |-> x = <<>> \/ y = <<>>,
                   num |-> Sum(x) * Len(y) - Sum(y) * Len(x),
                   den |-> Len(x) * Len(y)]

\* (x.mean() - y.mean()) / np.sqrt((x.std()**2 + y.std()**2) / 2)
EffectSize(x, y) ==
    IF MeanDiff(x, y).nan \/ Variance(x).nan \/ Variance(y).nan THEN "nan"
    ELSE IF Variance(x).num = 0 /\ Variance(y).num = 0
         THEN IF MeanDiff(x, y).num = 0 THEN "nan" ELSE "inf"
    ELSE "finite"

\* stats.mannwhitneyu(x, y): with an empty sample the library raises
\* ValueError or answers NaN, depending on its version (lib.strict).
MannWhitneyRaises(lib, x, y) == lib.strict /\ (x = <<>> \/ y = <<>>)
MannWhitneyP(x, y, p) == IF x = <<>> \/ y = <<>> THEN NaN ELSE p

(***************************************************************************)
(* analyze_subject.                                                        *)
(***************************************************************************)
\* phases[key]['data']['ReactionTime_ms'] raises KeyError when the phase is
\* missing and when the table has no rows (pd.DataFrame([]) has no columns).
RtPresent(ph, key) == key \in DOMAIN ph /\ ph[key].data # <<>>

MeasurePhases == <<"baseline", "measure_phase1", "measure_phase2">>

AnalyzeKeyError(ph) == \E i \in 1..3 : ~RtPresent(ph, MeasurePhases[i])

CleanedOf(ph, key) == remove_outliers(ReactionTimes(ph[key].data))

AnalyzeValueError(lib, bl, p1, p2) ==
    \/ MannWhitneyRaises(lib, bl, p1)
    \/ MannWhitneyRaises(lib, bl, p2)
    \/ MannWhitneyRaises(lib, p1, p2)

\* The dict analyze_subject returns, of cleaned series bl, p1, p2.
SubjectResult(name, bl, p1, p2) ==
    [subject |-> name,
     bl_mean |-> Mean(bl), bl_sd |-> Variance(bl),
     bl_median |-> Median4(bl), bl_n |-> Len(bl),
     p1_mean |-> Mean(p1), p1_sd |-> Variance(p1),
     p1_median |-> Median4(p1), p1_n |-> Len(p1),
     p2_mean |-> Mean(p2), p2_sd |-> Variance(p2),
     p2_median |-> Median4(p2), p2_n |-> Len(p2),
     change_p1 |-> MeanDiff(bl, p1),
     change_p2 |-> MeanDiff(bl, p2),
     d_p1 |-> EffectSize(bl, p1),
     p_p1 |-> IF bl = <<>> \/ p1 = <<>> THEN "nan" ELSE "number",
     d_p2 |-> EffectSize(bl, p2),
     p_p2 |-> IF bl = <<>> \/ p2 = <<>> THEN "nan" ELSE "number",
     bl_data |-> bl, p1_data |-> p1, p2_data |-> p2]

(***************************************************************************)
(* group_analysis.                                                         *)
(***************************************************************************)
Alpha      == 50       \* 0.05
One        == 1000     \* 1.0
Bonferroni == 3

RECURSIVE Pool(_, _)
Pool(rs, field) ==
    IF rs = <<>> THEN <<>> ELSE rs[1][field] \o Pool(Tail(rs), field)

AllIdentical(s) == \A i, j \in 1..Len(s) : s[i] = s[j]

\* stats.kruskal: NaN with an empty sample; with all numbers identical it
\* raises ValueError or answers NaN, depending on the library's version.
KruskalRaises(lib, a, b, c) ==
    /\ a # <<>> /\ b # <<>> /\ c # <<>>
    /\ AllIdentical(a \o b \o c) /\ lib.strict
KruskalP(lib, a, b, c) ==
    IF a = <<>> \/ b = <<>> \/ c = <<>> \/ AllIdentical(a \o b \o c)
    THEN NaN ELSE lib.h_p

SignificantLeq(p) == p # NaN /\ p <= Alpha

\* h_p < 0.05; a comparison with NaN is False
Significant(p) == p # NaN /\ p < Alpha

\* min(p_val * 3, 1.0); min(nan, 1.0) is nan
Corrected(p) == IF p = NaN THEN NaN
                ELSE IF p * Bonferroni < One THEN p * Bonferroni ELSE One

\* Both signed-rank tests in one try block: a failure of the first skips the
\* second.
WilcoxonTestsOneTry(lib) ==
    IF lib.w1_raises
    THEN << [test |-> "wilcoxon", alternative |-> "greater", on |-> "change_p1",
             raised |-> TRUE, p |-> NaN] >>
    ELSE << [test |-> "wilcoxon", alternative |-> "greater", on |-> "change_p1",
             raised |-> FALSE, p |-> NaN],
            [test |-> "wilcoxon", alternative |-> "greater", on |-> "change_p2",
             raised |-> lib.w2_raises, p |-> NaN] >>

\* The two signed-rank tests, each in its own try/except.
WilcoxonTests(lib) ==
    << [test |-> "wilcoxon", alternative |-> "greater", on |-> "change_p1",
        raised |-> lib.w1_raises, p |-> NaN],
       [test |-> "wilcoxon", alternative |-> "greater", on |-> "change_p2",
        raised |-> lib.w2_raises, p |-> NaN] >>

\* The post-hoc tests of the significant branch.
PostHocTests(lib, all_bl, all_p1, all_p2) ==
    << [test |-> "mannwhitneyu", alternative |-> "two-sided", on |-> "bl-p1",
        raised |-> FALSE, p |-> Corrected(MannWhitneyP(all_bl, all_p1, lib.p_two[1]))],
       [test |-> "mannwhitneyu", alternative |-> "two-sided", on |-> "bl-p2",
        raised |-> FALSE, p |-> Corrected(MannWhitneyP(all_bl, all_p2, lib.p_two[2]))],
       [test |-> "mannwhitneyu", alternative |-> "two-sided", on |-> "p1-p2",
        raised |-> FALSE, p |-> Corrected(MannWhitneyP(all_p1, all_p2, lib.p_two[3]))] >>

\* The supplementary tests of the other branch.
SupplementaryTests(lib, all_bl, all_p1, all_p2) ==
    << [test |-> "mannwhitneyu", alternative |-> "greater", on |-> "bl-p1",
        raised |-> FALSE, p |-> MannWhitneyP(all_bl, all_p1, lib.p_greater[1])],
       [test |-> "mannwhitneyu", alternative |-> "greater", on |-> "bl-p2",
        raised |-> FALSE, p |-> MannWhitneyP(all_bl, all_p2, lib.p_greater[2])] >>

\* The outcome of group_analysis: the tests run, h_p, and the exception that
\* ended it ("none" when it returned the table).
group_analysis(lib, rs) ==
    IF rs = <<>>
    THEN [tests |-> <<>>, h_p |-> NaN, err |-> "KeyError"]
    ELSE
      LET all_bl == Pool(rs, "bl_data")
          all_p1 == Pool(rs, "p1_data")
          all_p2 == Pool(rs, "p2_data")
          h      == KruskalP(lib, all_bl, all_p1, all_p2)
      IN  IF KruskalRaises(lib, all_bl, all_p1, all_p2)
          THEN [tests |-> WilcoxonTests(lib), h_p |-> NaN, err |-> "ValueError"]
          ELSE IF Significant(h)
          THEN [tests |-> WilcoxonTests(lib)
                          \o PostHocTests(lib, all_bl, all_p1, all_p2),
                h_p |-> h, err |-> "none"]
          ELSE IF MannWhitneyRaises(lib, all_bl, all_p1)
          THEN [tests |-> WilcoxonTests(lib), h_p |-> h, err |-> "ValueError"]
          ELSE IF MannWhitneyRaises(lib, all_bl, all_p2)
          THEN [tests |-> WilcoxonTests(lib)
                          \o SubSeq(SupplementaryTests(lib, all_bl, all_p1, all_p2), 1, 1),
                h_p |-> h, err |-> "ValueError"]
          ELSE [tests |-> WilcoxonTests(lib)
                          \o SupplementaryTests(lib, all_bl, all_p1, all_p2),
                h_p |-> h, err |-> "none"]

(***************************************************************************)
(* The data directory: file names and file texts.                          *)
(***************************************************************************)
FileName(name, status, ts) ==
    <<"Data", "_", name, "_", "EMS", "_", status, "_", ts, ".csv">>

OnNames(name)  == { FileName(name, "ON", TsTokens[i]) : i \in 1..Len(TsTokens) }
OffNames(name) == { FileName(name, "OFF", TsTokens[i]) : i \in 1..Len(TsTokens) }

\* Names that do not have the documented form.
OddNames ==
    { FileName("A", "TEST", TsTokens[1]),
      <<"x">> \o FileName("A", "ON", TsTokens[1]),
      FileName("A", "OFF", TsTokens[1]) \o <<".bak">>,
      FileName("A", "OFF", TsTokens[2]) \o <<".csv">>,
      <<"Data", "_", "A", "_", "EMS", "_", "ON", "_", TsTokens[1], "_",
        TsTokens[2], ".csv">> }

HeaderLine == <<"Trial", ",", "Direction", ",", "ReactionTime_ms">>
Row(n, rt) == <<n, ",", "Left", ",", rt>>

GoodText     == << SettingsMarker, <<"Offset", ",", " ", "0">>, HeaderLine,
                   Row("1", "240"), Row("2", "250"), Row("3", "260"),
                   SummaryMarker, <<"x", ",", "250">> >>
OneRowText   == << HeaderLine, Row("1", "250") >>
TwoSameText  == << HeaderLine, Row("1", "250"), Row("2", "250") >>
OutOfRangeText == << HeaderLine, Row("1", "90"), Row("2", "1200") >>
NoHeaderText == << SettingsMarker, <<"Offset", ",", " ", "0">> >>
BadRowText   == << HeaderLine, Row("x", "250") >>

\* What the statistics library answers: strict (it raises on an empty or
\* constant sample instead of answering NaN), whether each signed-rank test
\* raises, the omnibus p-value and the p-values of the pooled rank-sum tests.
HValues == {49, 50, 51}
PValues == {10, 400}
Libs == [strict : BOOLEAN, w1_raises : BOOLEAN, w2_raises : BOOLEAN,
         h_p : HValues, p_two : [1..3 -> PValues], p_greater : [1..2 -> PValues]]
LibOf(strict, h) == [strict |-> strict, w1_raises |-> FALSE, w2_raises |-> FALSE,
                     h_p |-> h, p_two |-> <<10, 400, 400>>,
                     p_greater |-> <<10, 400>>]

\* os.listdir returns the names in an arbitrary order: one enumeration of
\* the directory and its reversal.
RECURSIVE SetToSeq(_)
SetToSeq(S) == IF S = {} THEN <<>>
               ELSE LET x == CHOOSE x \in S : TRUE
                    IN  <<x>> \o SetToSeq(S \ {x})
Reverse(s) == [i \in 1..Len(s) |-> s[Len(s) + 1 - i]]
Listings(d) == { SetToSeq(d), Reverse(SetToSeq(d)) }

\* The directories of subject A: at each timestamp an EMS_ON file, an
\* EMS_OFF file or none.
SlotNames(kinds) ==
    { FileName("A", kinds[i], TsTokens[i]) :
        i \in { j \in 1..Len(TsTokens) : kinds[j] # "none" } }
DirsOfA == { SlotNames(kinds) : kinds \in [1..Len(TsTokens) -> {"none", "ON", "OFF"}] }

\* Files of another subject and files with odd names.
OtherNames == OddNames \cup { FileName("B", "OFF", TsTokens[1]) }
Extras == { e \in SUBSET OtherNames : Cardinality(e) <= MaxExtra }

(***************************************************************************)
(* main.                                                                   *)
(***************************************************************************)
MainIdle ==
    /\ dir = {} /\ content = <<>> /\ subjects = <<>> /\ order = <<>>
    /\ idx = 0 /\ phases = <<>> /\ results_list = <<>> /\ tests = <<>>
    /\ h_p = NaN /\ outputs = <<>> /\ scipy = LibOf(FALSE, 50)
    /\ err = "none" /\ pc = "idle"

MainStart ==
    /\ subjects = <<>> /\ order = <<>>
    /\ idx = 0 /\ phases = <<>> /\ results_list = <<>> /\ tests = <<>>
    /\ h_p = NaN /\ outputs = <<>>
    /\ err = "none" /\ pc = "start"

Fail(e) == pc' = "failed" /\ err' = e

\* subjects = load_all_data()
LoadAllData ==
    /\ pc = "start"
    /\ \E listing \in Listings(dir) :
         \E ld \in {load_all_data(listing, content)} :
             IF ld.raised
             THEN Fail("ValueError") /\ UNCHANGED <<subjects, order, idx>>
             ELSE /\ subjects' = ld.subjects /\ order' = ld.order
                  /\ idx' = 1 /\ pc' = "loop" /\ err' = err
    /\ UNCHANGED <<dir, content, phases, results_list, tests, h_p, outputs,
                   scipy, parseVars, outlierVars>>

\* phases = classify_phases(files), for the next subject of the loop
ClassifyPhases ==
    /\ pc = "loop" /\ idx <= Len(order)
    /\ phases' = classify_phases(subjects[order[idx]])
    /\ pc' = "classified"
    /\ UNCHANGED <<dir, content, subjects, order, idx, results_list, tests,
                   h_p, outputs, scipy, err, parseVars, outlierVars>>

\* A loop that reports a failing subject and goes on to the next one.
AnalyzeSubjectSkipping ==
    /\ pc = "classified"
    /\ LET bl == CleanedOf(phases, "baseline")
           p1 == CleanedOf(phases, "measure_phase1")
           p2 == CleanedOf(phases, "measure_phase2")
       IN  IF AnalyzeKeyError(phases) \/ AnalyzeValueError(scipy, bl, p1, p2)
           THEN results_list' = results_list
           ELSE results_list' =
                    Append(results_list, SubjectResult(order[idx], bl, p1, p2))
    /\ idx' = idx + 1 /\ pc' = "loop" /\ err' = err
    /\ UNCHANGED <<dir, content, subjects, order, phases, tests, h_p, outputs,
                   scipy, parseVars, outlierVars>>

\* result = analyze_subject(name, phases); results_list.append(result)
AnalyzeSubject ==
    /\ pc = "classified"
    /\ IF AnalyzeKeyError(phases)
       THEN Fail("KeyError") /\ UNCHANGED <<results_list, idx>>
       ELSE LET bl == CleanedOf(phases, "baseline")
                p1 == CleanedOf(phases, "measure_phase1")
                p2 == CleanedOf(phases, "measure_phase2")
            IN  IF AnalyzeValueError(scipy, bl, p1, p2)
                THEN Fail("ValueError") /\ UNCHANGED <<results_list, idx>>
                ELSE /\ results_list' =
                            Append(results_list,
                                   SubjectResult(order[idx], bl, p1, p2))
                     /\ idx' = idx + 1 /\ pc' = "loop" /\ err' = err
    /\ UNCHANGED <<dir, content, subjects, order, phases, tests, h_p, outputs,
                   scipy, parseVars, outlierVars>>

\* df_group = group_analysis(results_list), after the loop
GroupAnalysis ==
    /\ pc = "loop" /\ idx > Len(order)
    /\ LET g == group_analysis(scipy, results_list)
       IN  /\ tests' = g.tests /\ h_p' = g.h_p
           /\ IF g.err = "none" THEN pc' = "grouped" /\ err' = err
              ELSE Fail(g.err)
    /\ UNCHANGED <<dir, content, subjects, order, idx, phases, results_list,
                   outputs, scipy, parseVars, outlierVars>>

\* plot_results: markers[i] and colors[i] exist for three subjects only
PlotResults ==
    /\ pc = "grouped"
    /\ IF Len(results_list) > 3
       THEN Fail("IndexError") /\ UNCHANGED outputs
       ELSE /\ outputs' = Append(outputs, "reaction_time_analysis.png")
            /\ pc' = "plotted" /\ err' = err
    /\ UNCHANGED <<dir, content, subjects, order, idx, phases, results_list,
                   tests, h_p, scipy, parseVars, outlierVars>>

PlotIndividualTrials ==
    /\ pc = "plotted"
    /\ outputs' = Append(outputs, "individual_trials.png")
    /\ pc' = "scattered"
    /\ UNCHANGED <<dir, content, subjects, order, idx, phases, results_list,
                   tests, h_p, scipy, err, parseVars, outlierVars>>

ExportSummary ==
    /\ pc = "scattered"
    /\ outputs' = Append(outputs, "analysis_summary.csv")
    /\ pc' = "done"
    /\ UNCHANGED <<dir, content, subjects, order, idx, phases, results_list,
                   tests, h_p, scipy, err, parseVars, outlierVars>>

(***************************************************************************)
(* Specifications.                                                         *)
(***************************************************************************)
\* parse_csv read line by line, over every file of at most MaxLines lines.
InitParse == ParseInit /\ OutlierIdle /\ MainIdle
NextParse == ReadLine \/ ParseReturn
SpecParse == InitParse /\ [][NextParse]_vars

\* remove_outliers over every series of at most MaxSeries values.
InitOutlier == ParseIdle /\ OutlierInit /\ MainIdle
NextOutlier == RemoveOutliersPass
SpecOutlier == InitOutlier /\ [][NextOutlier]_vars

Next == \/ LoadAllData
        \/ ClassifyPhases
        \/ AnalyzeSubject
        \/ GroupAnalysis
        \/ PlotResults
        \/ PlotIndividualTrials
        \/ ExportSummary

\* main over every directory of at most MaxFiles files, every file well
\* formed.
Init == /\ ParseIdle /\ OutlierIdle /\ MainStart
        /\ dir \in { a \cup e : a \in DirsOfA, e \in Extras }
        /\ Cardinality(dir) <= MaxFiles
        /\ content = [f \in dir |-> GoodText]
        /\ scipy = LibOf(FALSE, 50)
Spec == Init /\ [][Next]_vars

\* main on the directories of one subject with up to three EMS_ON and up to
\* three EMS_OFF files, over the texts the three EMS_OFF files can hold and
\* both behaviours of the statistics library on degenerate samples.
CountsDir(n_on, n_off) ==
    { FileName("A", "ON", TsTokens[2 * i]) : i \in 1..n_on }
    \cup { FileName("A", "OFF", TsTokens[2 * i - 1]) : i \in 1..n_off }
Texts == { GoodText, OneRowText, TwoSameText, OutOfRangeText, NoHeaderText,
           BadRowText }
InitData ==
    /\ ParseIdle /\ OutlierIdle /\ MainStart
    /\ \E n_on \in 0..3, n_off \in 0..3 : dir = CountsDir(n_on, n_off)
    /\ content \in [dir -> Texts]
    /\ \A f \in dir : f \in OnNames("A") => content[f] = GoodText
    /\ scipy \in { LibOf(FALSE, 50), LibOf(TRUE, 50) }
SpecData == InitData /\ [][Next]_vars

\* main on complete directories of one and of two subjects, over every
\* answer of the statistics library.
GroupDirs ==
    { CountsDir(0, 3),
      CountsDir(3, 3),
      CountsDir(0, 3) \cup { FileName("B", "OFF", TsTokens[i]) : i \in 1..3 } }
InitGroup ==
    /\ ParseIdle /\ OutlierIdle /\ MainStart
    /\ dir \in GroupDirs
    /\ \E t \in { GoodText, OutOfRangeText, TwoSameText } :
          content = [f \in dir |->
                       IF f \in OffNames(IF dir \cap OffNames("B") = {}
                                         THEN "A" ELSE "B")
                       THEN t ELSE GoodText]
    /\ scipy \in Libs
SpecGroup == InitGroup /\ [][Next]_vars

\* main on the directories of two subjects with up to three EMS_OFF files
\* each, over the texts the files of each subject can hold and both
\* behaviours of the statistics library on degenerate samples.
PairDir(n_a, n_b) ==
    { FileName("A", "OFF", TsTokens[i]) : i \in 1..n_a }
    \cup { FileName("B", "OFF", TsTokens[i]) : i \in 1..n_b }
InitPair ==
    /\ ParseIdle /\ OutlierIdle /\ MainStart
    /\ \E n_a \in 0..3, n_b \in 0..3 : dir = PairDir(n_a, n_b)
    /\ \E t_a \in Texts, t_b \in Texts :
          content = [f \in dir |-> IF f \in OffNames("A") THEN t_a ELSE t_b]
    /\ scipy \in { LibOf(FALSE, 50), LibOf(TRUE, 50) }
SpecPair == InitPair /\ [][Next]_vars

(***************************************************************************)
(* Properties of parse_csv (SpecParse).                                    *)
(***************************************************************************)
\* C3: parse_csv never fails because of a malformed line: whatever the lines
\* of the file, it never ends by raising.
C3_NeverRaises == ppc # "raised"

\* C4: a line that is not exactly a section marker or the trials header
\* (after trimming) neither switches the mode of the parser nor ends the
\* parsing.
C4_ExactMarkersOnly ==
    [][ (/\ ppc = "loop" /\ lineno <= Len(f_lines)
         /\ Strip(f_lines[lineno]) \notin {SettingsMarker, SummaryMarker, HeaderLine})
        => (/\ in_settings' = in_settings
            /\ in_trials' = in_trials
            /\ ppc' # "break") ]_vars

MarksSummaryExactly(l) == Strip(l) = SummaryMarker
MarksSummaryByPrefix(l) == StartsWith(Strip(l), SummaryMarker)

\* The lines before the first summary marker: a line equal to the marker
\* (exact) or a line that starts with it.
RECURSIVE Before(_, _)
Before(lines, exact) ==
    IF lines = <<>> THEN <<>>
    ELSE IF exact /\ MarksSummaryExactly(lines[1]) THEN <<>>
    ELSE IF ~exact /\ MarksSummaryByPrefix(lines[1]) THEN <<>>
    ELSE <<lines[1]>> \o Before(Tail(lines), exact)

\* The outcome of the run of the parser agrees with parse_csv on lines.
SameOutcomeAs(lines) ==
    /\ (ppc = "raised") = (ParseCsv(lines).ctl = "raise")
    /\ ppc = "returned" => /\ settings = ParseCsv(lines).settings
                           /\ trials = ParseCsv(lines).trials

\* C5: once a summary marker has been read no later line changes the
\* result: the outcome is that of the file cut just before its first summary
\* marker, whether a marker is a line equal to '--- Summary ---' or a line
\* that starts with it.
C5_NothingAfterSummary ==
    ppc \in {"returned", "raised"} =>
        /\ SameOutcomeAs(Before(f_lines, TRUE))
        /\ SameOutcomeAs(Before(f_lines, FALSE))

\* A file whose summary marker is followed by a trial row, after the header.
C5_Witness ==
    /\ ppc = "returned" /\ in_trials /\ trials = <<>>
    /\ lineno < Len(f_lines)
    /\ f_lines[lineno] = SummaryMarker
    /\ f_lines[lineno + 1] = Row("1", "250")

(***************************************************************************)
(* Properties of remove_outliers (SpecOutlier).                            *)
(***************************************************************************)
RECURSIVE IsSubsequence(_, _)
IsSubsequence(a, b) ==
    IF a = <<>> THEN TRUE
    ELSE IF b = <<>> THEN FALSE
    ELSE IF a[1] = b[1] THEN IsSubsequence(Tail(a), Tail(b))
    ELSE IsSubsequence(a, Tail(b))

InClosedRange(v) == 100 <= v /\ v <= 1000

\* C9: the output of remove_outliers is a subsequence of the values of the
\* input that lie in [100, 1000] (same order, no value added or repeated),
\* and is no longer than the input.
C9_Subsequence ==
    passes >= 1 =>
        /\ IsSubsequence(cleaned, SelectSeq(series, InClosedRange))
        /\ Len(cleaned) <= Len(series)

\* One pass in which both filters removed a value.
C9_Witness ==
    /\ passes = 1 /\ cleaned # <<>>
    /\ Len(cleaned) < Len(SelectSeq(series, InClosedRange))
    /\ Len(SelectSeq(series, InClosedRange)) < Len(series)

\* C10: on [120,130,125,128,122,900,121] the first pass removes exactly
\* 900, and a further pass removes nothing.
C10_FixedSeries ==
    (series = FixedSeries /\ passes >= 1) =>
        cleaned = <<120, 130, 125, 128, 122, 121>>

C10_Witness ==
    /\ series = <<120, 130, 125, 128, 122, 900, 121>> /\ passes = 2
    /\ cleaned = <<120, 130, 125, 128, 122, 121>>

(***************************************************************************)
(* Properties of load_all_data and classify_phases (Spec).                 *)
(***************************************************************************)
WithStatusIdx(files, status) ==
    { i \in 1..Len(files) : files[i].ems_status = status }

DistinctTs(files, I) ==
    \A i, j \in I : i # j => files[i].timestamp # files[j].timestamp

\* The file of the given status with exactly k - 1 earlier files of that
\* status.
KthOf(files, status, k) ==
    files[CHOOSE i \in WithStatusIdx(files, status) :
            Cardinality({ j \in WithStatusIdx(files, status) :
                TokRank(files[j].timestamp) < TokRank(files[i].timestamp) }) = k - 1]

ThreeAndThree(files) ==
    /\ Cardinality(WithStatusIdx(files, EMS_ON)) = 3
    /\ Cardinality(WithStatusIdx(files, EMS_OFF)) = 3
    /\ DistinctTs(files, WithStatusIdx(files, EMS_ON))
    /\ DistinctTs(files, WithStatusIdx(files, EMS_OFF))

\* C1: for a subject loaded with exactly 3 EMS_ON files (t1<t2<t3) and
\* exactly 3 EMS_OFF files (t4<t5<t6), classify_phases maps ems_response,
\* train_phase1, train_phase2 to the files of t1, t2, t3 and baseline,
\* measure_phase1, measure_phase2 to the files of t4, t5, t6.
C1_Phases ==
    (pc = "classified" /\ ThreeAndThree(subjects[order[idx]])) =>
        LET files == subjects[order[idx]] IN
        /\ DOMAIN phases = PhaseNames
        /\ phases["ems_response"]   = KthOf(files, EMS_ON, 1)
        /\ phases["train_phase1"]   = KthOf(files, EMS_ON, 2)
        /\ phases["train_phase2"]   = KthOf(files, EMS_ON, 3)
        /\ phases["baseline"]       = KthOf(files, EMS_OFF, 1)
        /\ phases["measure_phase1"] = KthOf(files, EMS_OFF, 2)
        /\ phases["measure_phase2"] = KthOf(files, EMS_OFF, 3)

\* Three and three, interleaved: OFF, ON, ..., ON, OFF by time.
C1_Witness ==
    /\ pc = "classified" /\ ThreeAndThree(subjects[order[idx]])
    /\ Len(subjects[order[idx]]) = 6
    /\ subjects[order[idx]][1].ems_status = EMS_OFF
    /\ subjects[order[idx]][2].ems_status = EMS_ON
    /\ subjects[order[idx]][5].ems_status = EMS_ON
    /\ subjects[order[idx]][6].ems_status = EMS_OFF

\* Data_<subject>_<EMS_ON|EMS_OFF>_<YYYYMMDD_HHMMSS>.csv, the whole name.
WellNamed(f) ==
    /\ Len(f) = 10
    /\ f[1] = "Data" /\ f[2] = "_" /\ f[3] \in {"A", "B"} /\ f[4] = "_"
    /\ f[5] = "EMS" /\ f[6] = "_" /\ f[7] \in {"ON", "OFF"} /\ f[8] = "_"
    /\ IsTimestamp(f[9]) /\ f[10] = ".csv"

\* C6: load_all_data returns exactly the well-named files of the
\* directory, each once under its subject: a file with another status token
\* or with text around the pattern is in no file set, and no subject entry
\* exists but for a well-named file.
C6_OnlyWellNamed ==
    pc \in {"loop", "classified"} =>
        /\ \A n \in DOMAIN subjects : \A i \in 1..Len(subjects[n]) :
              /\ WellNamed(subjects[n][i].filename)
              /\ subjects[n][i].filename \in dir
              /\ subjects[n][i].filename[3] = n[1]
        /\ \A f \in dir : WellNamed(f) =>
              /\ <<f[3]>> \in DOMAIN subjects
              /\ Cardinality({ i \in 1..Len(subjects[<<f[3]>>]) :
                                 subjects[<<f[3]>>][i].filename = f }) = 1
        /\ \A n \in DOMAIN subjects : \E f \in dir : WellNamed(f) /\ <<f[3]>> = n

(***************************************************************************)
(* Properties of analyze_subject (SpecData).                               *)
(***************************************************************************)
\* C2: a subject with any of the six phases missing is never analyzed:
\* analyze_subject fails for it, also when only EMS_ON phases are missing.
C2_MissingPhaseFails ==
    [][ (pc = "classified" /\ DOMAIN phases # PhaseNames) => pc' = "failed" ]_vars

\* C7: when a cleaned series of the subject has zero or one value
\* analyze_subject raises; it never returns a result with an undefined
\* standard deviation, effect size or p-value.
C7_InsufficientDataFails ==
    [][ (pc = "classified" /\ pc' # "failed") =>
          LET r == results_list'[Len(results_list')] IN
          /\ r.bl_n >= 2 /\ r.p1_n >= 2 /\ r.p2_n >= 2
          /\ ~r.bl_sd.nan /\ ~r.p1_sd.nan /\ ~r.p2_sd.nan
          /\ r.d_p1 # "nan" /\ r.d_p2 # "nan"
          /\ r.p_p1 # "nan" /\ r.p_p2 # "nan" ]_vars

(***************************************************************************)
(* Properties of group_analysis (SpecGroup).                               *)
(***************************************************************************)
\* The pooled tests, after the two signed-rank tests.
PooledTests == SubSeq(tests, 3, Len(tests))

\* C8: with h_p < 0.05 group_analysis runs the two-sided test on the three
\* pool pairs, each p-value min(3p, 1.0), and no one-sided test; otherwise
\* (h_p = 0.05 included) it runs the two one-sided uncorrected tests only.
C8_Branching ==
    pc = "grouped" =>
        IF h_p # NaN /\ h_p < 50
        THEN /\ Len(PooledTests) = 3
             /\ \A i \in 1..3 :
                  /\ PooledTests[i].test = "mannwhitneyu"
                  /\ PooledTests[i].alternative = "two-sided"
                  /\ PooledTests[i].on = <<"bl-p1", "bl-p2", "p1-p2">>[i]
                  /\ PooledTests[i].p =
                        (IF 3 * scipy.p_two[i] < 1000
                         THEN 3 * scipy.p_two[i] ELSE 1000)
                  /\ PooledTests[i].p <= 1000
        ELSE /\ Len(PooledTests) = 2
             /\ \A i \in 1..2 :
                  /\ PooledTests[i].test = "mannwhitneyu"
                  /\ PooledTests[i].alternative = "greater"
                  /\ PooledTests[i].on = <<"bl-p1", "bl-p2">>[i]
                  /\ PooledTests[i].p \in {scipy.p_greater[i], NaN}

\* The significant branch, with one p-value capped and one not.
C8_Witness ==
    /\ pc = "grouped" /\ h_p = 49 /\ Len(tests) = 5
    /\ tests[3].p = 30 /\ tests[4].p = 1000

(***************************************************************************)
(* Properties of the order of main (SpecPair).                             *)
(***************************************************************************)
\* The results so far are those of the first n subjects, in order.
ResultsCover(n) ==
    /\ Len(results_list) = n
    /\ \A i \in 1..n : results_list[i].subject = order[i]

\* A step of main that starts group_analysis, and a step that writes an
\* output file.
GroupStarts == pc = "loop" /\ pc' \in {"grouped", "failed"}
OutputStarts == outputs' # outputs

\* C11: group_analysis starts only after every loaded subject has a result,
\* an output step starts only after group_analysis has returned, and once
\* load_all_data or the analysis of a subject has failed no later subject
\* is analyzed, group_analysis does not run and no output file is written.
C11_Barriers ==
    [][ /\ GroupStarts => ResultsCover(Len(order))
        /\ OutputStarts => /\ pc \in {"grouped", "plotted", "scattered"}
                           /\ err = "none"
                           /\ ResultsCover(Len(order))
        /\ (pc \in {"start", "classified"} /\ pc' = "failed")
              => /\ results_list' = results_list
                 /\ tests' = <<>> /\ outputs' = <<>>
        /\ pc = "failed" => UNCHANGED vars ]_vars

\* The first of two subjects has failed: the second is never analyzed.
C11_Witness ==
    /\ pc = "failed" /\ err \in {"KeyError", "ValueError"}
    /\ Len(order) = 2 /\ idx = 1
    /\ results_list = <<>> /\ tests = <<>> /\ outputs = <<>>

(***************************************************************************)
(* Properties of the signed-rank tests of group_analysis (SpecGroup).      *)
(***************************************************************************)
\* A step of main that runs group_analysis on at least one result.
GroupRuns == pc = "loop" /\ idx > Len(order) /\ results_list # <<>>

\* The pooled samples cannot be tested: one is empty or all numbers are
\* the same.
PoolsDegenerate ==
    LET all_bl == Pool(results_list, "bl_data")
        all_p1 == Pool(results_list, "p1_data")
        all_p2 == Pool(results_list, "p2_data")
    IN  \/ all_bl = <<>> \/ all_p1 = <<>> \/ all_p2 = <<>>
        \/ AllIdentical(all_bl \o all_p1 \o all_p2)

\* C12: a signed-rank test that raises never ends group_analysis: both
\* tests are attempted, on change_p1 and then on change_p2, whether or not
\* either raises; group_analysis then runs the omnibus test and its
\* follow-up on the pooled samples and returns, unless those later tests
\* themselves raise on degenerate pools.
C12_WilcoxonCaught ==
    [][ GroupRuns =>
          /\ Len(tests') >= 2
          /\ \A i \in 1..2 :
                /\ tests'[i].test = "wilcoxon"
                /\ tests'[i].on = <<"change_p1", "change_p2">>[i]
                /\ tests'[i].raised = <<scipy.w1_raises, scipy.w2_raises>>[i]
          /\ (pc' = "failed") = (scipy.strict /\ PoolsDegenerate)
          /\ pc' = "grouped" =>
                /\ Len(tests') \in {4, 5}
                /\ \A i \in 3..Len(tests') : tests'[i].test = "mannwhitneyu"
                /\ PoolsDegenerate = (h_p' = NaN) ]_vars

\* group_analysis has returned although both signed-rank tests raised.
C12_Witness ==
    /\ pc = "grouped" /\ Len(tests) >= 4
    /\ tests[1].raised /\ tests[2].raised
    /\ tests[3].test = "mannwhitneyu"

(***************************************************************************)
(* Properties of the modes of parse_csv (SpecParse).                       *)
(***************************************************************************)
\* No line of the file is taken for the trials header by the parser.
NoTrialsHeader ==
    \A i \in 1..Len(f_lines) : ~StartsWith(Strip(f_lines[i]), TrialsPrefix)

\* C13: while parse_csv reads a file settings mode and trial-row mode are
\* never both active; a line read while neither is active adds nothing; a
\* settings entry is added only by a line with a comma read in settings
\* mode; a row is appended only by a line read in trial-row mode; and a
\* file in which no line is taken for the trials header yields an empty
\* trial table.
C13_Modes ==
    [][ /\ ~(in_settings /\ in_trials) /\ ~(in_settings' /\ in_trials')
        /\ (~in_settings /\ ~in_trials)
              => (settings' = settings /\ trials' = trials)
        /\ settings' # settings
              => /\ in_settings /\ ~in_trials
                 /\ HasComma(Strip(f_lines[lineno]))
                 /\ trials' = trials
        /\ trials' # trials
              => /\ in_trials /\ ~in_settings
                 /\ Len(trials') = Len(trials) + 1
                 /\ settings' = settings
        /\ NoTrialsHeader => trials' = <<>> ]_vars

\* A file read to its end that gave a settings entry in settings mode and
\* then a row in trial-row mode.
C13_Witness ==
    /\ ppc = "returned" /\ in_trials /\ ~in_settings
    /\ settings # <<>> /\ trials # <<>>

====
